---------------------------- MODULE Spec2Model ----------------------------
(***************************************************************************)
(* Model of the genomics drift investigator: the metric store and drift    *)
(* detector (analysis/detectors.py), the hypothesis ranker                 *)
(* (analysis/hypotheses.py), the counterfactual probes (analysis/probes.py),*)
(* the remediation engine (analysis/report.py) and the investigation       *)
(* controller exposed by the API handlers (api/main.py).                   *)
(*                                                                         *)
(* Numbers.  Python floats are modelled as scaled integers:                *)
(*   rates, ratios, effect sizes, explains_pct, scores : units of 0.001    *)
(*   p-values                                          : units of 1e-6     *)
(* so 0.8 is 800, 2.1 is 2100, p = 1e-4 is 100 and p = 1e-6 is 1.          *)
(* A median of an even number of samples may fall between two integers, so *)
(* medians are carried doubled (Median2 = 2 * median).                     *)
(***************************************************************************)
EXTENDS Integers, Sequences, FiniteSets, TLC

VARIABLES
    metrics_db,      \* rows of the sqlite table "metrics", in rowid order
    now,             \* CURRENT_TIMESTAMP of the store, in whole seconds
    run_artifacts,   \* api/main.py run_artifacts: run_id -> metrics of the run
    investigations,  \* api/main.py investigations: case_id -> InvestigationState
    response,        \* what the last call returned to its caller
    requests         \* the calls in progress, each with its position: the
                     \* requests clients sent and their handlers on the event
                     \* loop of uvicorn.run(app), or the store_metrics calls
                     \* and the transactions of their sqlite connections

vars == <<metrics_db, now, run_artifacts, investigations, response, requests>>

-----------------------------------------------------------------------------
(* Bounds of the model.                                                     *)

MaxRuns == 1          \* pipeline runs registered through /api/run
MaxChecks == 1        \* /api/check_drift calls that reach the store
MaxProbeCalls == 1    \* successful probes over all Cases, specification Spec
MaxBudgetProbes == 6  \* successful probes on the Case, specification SpecBudget
MaxRows == 3          \* rows in the metric store (SpecDetector)
MaxClock == 1         \* seconds the store's clock advances
MaxRequests == 3      \* requests the clients send while the server is up
MaxStores == 2        \* store_metrics calls of different runs (SpecStore)
MaxSamples == 2       \* samples of a micro-cohort manifest (SpecCohort)

-----------------------------------------------------------------------------
(* Generic helpers.                                                         *)

Min(a, b) == IF a < b THEN a ELSE b
Max(a, b) == IF a > b THEN a ELSE b
Abs(a) == IF a < 0 THEN 0 - a ELSE a
Last(s) == s[Len(s)]
Take(s, n) == SubSeq(s, 1, Min(n, Len(s)))

RECURSIVE SumSeq(_)
SumSeq(s) == IF s = <<>> THEN 0 ELSE Head(s) + SumSeq(Tail(s))

RECURSIVE SortedSeq(_)
\* the values of s in ascending order (np.sort)
SortedSeq(s) ==
    IF s = <<>> THEN <<>>
    ELSE LET i == CHOOSE i \in 1..Len(s) : \A j \in 1..Len(s) : s[i] <= s[j]
             rest == [k \in 1..(Len(s) - 1) |-> IF k < i THEN s[k] ELSE s[k + 1]]
         IN <<s[i]>> \o SortedSeq(rest)

\* np.median, doubled: the middle value, or the sum of the two middle values
Median2(s) ==
    LET t == SortedSeq(s)
        n == Len(t)
    IN IF n % 2 = 1 THEN 2 * t[(n + 1) \div 2]
       ELSE t[n \div 2] + t[(n \div 2) + 1]

\* what numpy yields for a positive float divided by zero
Infinity == 1000000000

-----------------------------------------------------------------------------
(* Metric values.  A metrics map is a sequence of <<name, value>> pairs in  *)
(* dict insertion order; a value is a number, a dict (name -> number) or a  *)
(* list of numbers.                                                         *)

Num(n) == [kind |-> "num", v |-> n]
Dict(d) == [kind |-> "dict", v |-> d]
List(l) == [kind |-> "list", v |-> l]

\* dict.get(key, default) on a metrics map
MetricGet(metrics, name, default) ==
    IF \E i \in 1..Len(metrics) : metrics[i][1] = name
    THEN metrics[CHOOSE i \in 1..Len(metrics) : metrics[i][1] = name][2]
    ELSE default

MetricHas(metrics, name) == \E i \in 1..Len(metrics) : metrics[i][1] = name

\* json.dumps of a dict gives a TEXT cell; json.loads gives the dict back.
\* A number stored in the REAL column comes back as a float.
json_dumps(d) == [kind |-> "text", json |-> d]
json_loads(cell) == cell.json
Real(n) == [kind |-> "real", v |-> n]

RECURSIVE DictValues(_)
\* list(d.values()); the consumers (median, KS) do not depend on the order
DictValues(d) ==
    IF DOMAIN d = {} THEN <<>>
    ELSE LET k == CHOOSE k \in DOMAIN d : TRUE
         IN <<d[k]>> \o DictValues([x \in (DOMAIN d) \ {k} |-> d[x]])

DictSum(d) == SumSeq(DictValues(d))


-----------------------------------------------------------------------------
(* Statistics library (analysis/metrics.py).                                *)

RECURSIVE Gcd(_, _)
Gcd(a, b) == IF b = 0 THEN a ELSE Gcd(b, a % b)

\* number of elements of s that are <= x (the empirical CDF, unnormalised)
CountLe(s, x) == Cardinality({i \in 1..Len(s) : s[i] <= x})

RECURSIVE PathsInside(_, _, _, _, _)
\* monotone lattice paths from (0,0) to (i,j) on which the two empirical CDFs
\* never differ by h/lcm or more; a and b are lcm/n1 and lcm/n2
PathsInside(i, j, a, b, h) ==
    IF Abs(i * a - j * b) >= h THEN 0
    ELSE IF i = 0 /\ j = 0 THEN 1
    ELSE (IF i > 0 THEN PathsInside(i - 1, j, a, b, h) ELSE 0)
       + (IF j > 0 THEN PathsInside(i, j - 1, a, b, h) ELSE 0)

RECURSIVE PathsAll(_, _)
PathsAll(i, j) ==
    IF i = 0 \/ j = 0 THEN 1 ELSE PathsAll(i - 1, j) + PathsAll(i, j - 1)

\* ks_test: two-sample Kolmogorov-Smirnov statistic and exact two-sided p-value
ks_test(current, baseline) ==
    IF Len(current) = 0 \/ Len(baseline) = 0
    THEN [statistic |-> 0, p_value |-> 1000000]
    ELSE LET n1 == Len(current)
             n2 == Len(baseline)
             lcm == (n1 \div Gcd(n1, n2)) * n2
             a == lcm \div n1
             b == lcm \div n2
             points == {current[i] : i \in 1..n1} \cup {baseline[i] : i \in 1..n2}
             diff(x) == Abs(CountLe(current, x) * a - CountLe(baseline, x) * b)
             h == CHOOSE d \in {diff(x) : x \in points} :
                     \A x \in points : diff(x) <= d
             all == PathsAll(n1, n2)
         IN [statistic |-> (h * 1000) \div lcm,
             p_value |-> IF h = 0 THEN 1000000
                         ELSE ((all - PathsInside(n1, n2, a, b, h)) * 1000000) \div all]

-----------------------------------------------------------------------------
(* Metric store (DriftDetector.store_metrics / get_baseline_metrics).       *)

baseline_window == 200   \* default of get_baseline_metrics' limit

RECURSIVE StoreRows(_, _, _, _)
\* the rows store_metrics inserts: one per numeric field, one per dict field
\* (serialised), none for any other value (lists are skipped)
StoreRows(run_id, stage, metrics, ts) ==
    IF metrics = <<>> THEN <<>>
    ELSE LET name == Head(metrics)[1]
             value == Head(metrics)[2]
             row(cell) == [run_id |-> run_id, stage |-> stage, metric_name |-> name,
                           metric_value |-> cell, timestamp |-> ts]
             rest == StoreRows(run_id, stage, Tail(metrics), ts)
         IN IF value.kind = "num" THEN <<row(Real(value.v))>> \o rest
            ELSE IF value.kind = "dict" THEN <<row(json_dumps(value.v))>> \o rest
            ELSE rest

store_metrics(db, run_id, stage, metrics, ts) ==
    db \o StoreRows(run_id, stage, metrics, ts)

\* ORDER BY timestamp DESC leaves the order of rows with equal timestamps
\* unspecified; the model lets a query return them in rowid order or in
\* reverse rowid order.
TieOrders == {"rowid_asc", "rowid_desc"}

Before(db, i, j, tie) ==
    \/ db[i].timestamp > db[j].timestamp
    \/ /\ db[i].timestamp = db[j].timestamp
       /\ IF tie = "rowid_asc" THEN i <= j ELSE i >= j

RECURSIVE SortRows(_, _, _)
SortRows(db, S, tie) ==
    IF S = {} THEN <<>>
    ELSE LET i == CHOOSE i \in S : \A j \in S : Before(db, i, j, tie)
         IN <<i>> \o SortRows(db, S \ {i}, tie)

\* SELECT ... WHERE stage = ? ORDER BY timestamp DESC LIMIT ?  (as rowids)
QueryBaseline(db, stage, limit, tie) ==
    Take(SortRows(db, {i \in 1..Len(db) : db[i].stage = stage}, tie), limit)

EmptyBaseline == [x \in {} |-> 0]

\* one iteration of the grouping loop of get_baseline_metrics
BaselineStep(baseline, row) ==
    LET name == row.metric_name
        cell == row.metric_value
        b1 == IF name \in DOMAIN baseline THEN baseline
              ELSE baseline @@ (name :> List(<<>>))
    IN IF b1[name].kind = "list"
       THEN IF cell.kind = "real"
            THEN [b1 EXCEPT ![name] = List(Append(@.v, cell.v))]
            \* float(text) raises ValueError; the text parses as a dict
            ELSE [b1 EXCEPT ![name] = Dict(json_loads(cell))]
       ELSE b1

RECURSIVE BaselineFold(_, _, _)
BaselineFold(db, rowids, baseline) ==
    IF rowids = <<>> THEN baseline
    ELSE BaselineFold(db, Tail(rowids), BaselineStep(baseline, db[Head(rowids)]))

get_baseline_metrics(db, stage, limit, tie) ==
    BaselineFold(db, QueryBaseline(db, stage, limit, tie), EmptyBaseline)


-----------------------------------------------------------------------------
(* Drift detector (DriftDetector.detect_*_drift, detect_drift).             *)

Anomaly(stage, metric, p, effect) ==
    [stage |-> stage, metric |-> metric, p |-> p, effect |-> effect]

\* "if isinstance(x, dict): x = list(x.values())"
BaselineList(b) == IF b.kind = "dict" THEN DictValues(b.v) ELSE b.v

\* the depth-distribution rule of detect_alignment_drift
DepthRule(current_metrics, baseline) ==
    IF MetricHas(current_metrics, "depth_hist") /\ "depth_hist" \in DOMAIN baseline
    THEN LET current_depth == MetricGet(current_metrics, "depth_hist", List(<<>>)).v
             baseline_depth == BaselineList(baseline["depth_hist"])
         IN IF Len(baseline_depth) > 0
            THEN LET ks_result == ks_test(current_depth, baseline_depth)
                 IN IF ks_result.p_value < 10000
                    THEN <<Anomaly("alignment", "depth_ks", ks_result.p_value,
                                   Abs(ks_result.statistic))>>
                    ELSE <<>>
            ELSE <<>>
    ELSE <<>>

\* the softclip rule of detect_alignment_drift: current > 1.5 * median, and
\* effect (current - median) / median, a float division that gives inf on a
\* zero median
SoftclipRule(current_metrics, baseline) ==
    IF MetricHas(current_metrics, "softclip_rate") /\ "softclip_rate" \in DOMAIN baseline
    THEN LET current_rate == MetricGet(current_metrics, "softclip_rate", Num(0)).v
             baseline_rates == BaselineList(baseline["softclip_rate"])
         IN IF Len(baseline_rates) > 0
            THEN LET m2 == Median2(baseline_rates)
                 IN IF 4 * current_rate > 3 * m2
                    THEN <<Anomaly("alignment", "softclip_rate_increase", 1000,
                                   IF m2 = 0 THEN Infinity
                                   ELSE ((2 * current_rate - m2) * 1000) \div m2)>>
                    ELSE <<>>
            ELSE <<>>
    ELSE <<>>

detect_alignment_drift(db, current_metrics, tie) ==
    LET baseline == get_baseline_metrics(db, "align", baseline_window, tie)
    IN DepthRule(current_metrics, baseline) \o SoftclipRule(current_metrics, baseline)

\* |current Ti/Tv - median| > 0.2
detect_calling_drift(db, current_metrics, tie) ==
    LET baseline == get_baseline_metrics(db, "call", baseline_window, tie)
    IN IF MetricHas(current_metrics, "titv") /\ "titv" \in DOMAIN baseline
       THEN LET current_titv == MetricGet(current_metrics, "titv", Num(0)).v
                baseline_titv == BaselineList(baseline["titv"])
            IN IF Len(baseline_titv) > 0
               THEN LET m2 == Median2(baseline_titv)
                    IN IF Abs(2 * current_titv - m2) > 400
                       THEN <<Anomaly("calling", "titv_drift", 1000,
                                      Abs(2 * current_titv - m2) \div 2)>>
                       ELSE <<>>
               ELSE <<>>
       ELSE <<>>

\* detect_annotation_drift flagging a pathogenic share of 0.15 and above
detect_annotation_drift_from(current_metrics) ==
    LET current_counts == MetricGet(current_metrics, "clinvar_counts", Dict(EmptyBaseline)).v
    IN IF DOMAIN current_counts # {}
       THEN LET pathogenic == IF "pathogenic" \in DOMAIN current_counts
                              THEN current_counts["pathogenic"] ELSE 0
            IN IF 100 * pathogenic >= 15 * Max(DictSum(current_counts), 1)
               THEN <<Anomaly("annotation", "clinvar_chi2", 1, 350)>>
               ELSE <<>>
       ELSE <<>>

\* pathogenic / max(sum of all counts, 1) > 0.15; no baseline is read
detect_annotation_drift(current_metrics) ==
    LET current_counts == MetricGet(current_metrics, "clinvar_counts", Dict(EmptyBaseline)).v
    IN IF DOMAIN current_counts # {}
       THEN LET pathogenic == IF "pathogenic" \in DOMAIN current_counts
                              THEN current_counts["pathogenic"] ELSE 0
            IN IF 100 * pathogenic > 15 * Max(DictSum(current_counts), 1)
               THEN <<Anomaly("annotation", "clinvar_chi2", 1, 350)>>
               ELSE <<>>
       ELSE <<>>

\* current ECE > median + 0.05
detect_prediction_drift(db, current_metrics, tie) ==
    LET baseline == get_baseline_metrics(db, "predict", baseline_window, tie)
    IN IF MetricHas(current_metrics, "ece") /\ "ece" \in DOMAIN baseline
       THEN LET current_ece == MetricGet(current_metrics, "ece", Num(0)).v
                baseline_ece == BaselineList(baseline["ece"])
            IN IF Len(baseline_ece) > 0
               THEN LET m2 == Median2(baseline_ece)
                    IN IF 2 * current_ece > m2 + 100
                       THEN <<Anomaly("prediction", "ece_increase", 1000,
                                      (2 * current_ece - m2) \div 2)>>
                       ELSE <<>>
               ELSE <<>>
       ELSE <<>>

\* the store a stage's rules read their baseline from: detect_drift stores the
\* current metrics first and the rules then query the store
BaselineSource(db, run_id, stage, current_metrics, ts) ==
    store_metrics(db, run_id, stage, current_metrics, ts)

\* detect_drift: the store after the call, the anomalies, the rowids the call
\* inserted and the rowids its baseline query returned
detect_drift(db, run_id, stage, current_metrics, ts, tie) ==
    LET stored_db == store_metrics(db, run_id, stage, current_metrics, ts)
        source == BaselineSource(db, run_id, stage, current_metrics, ts)
        reads == stage \in {"align", "call", "predict"}
        rowids == QueryBaseline(source, stage, baseline_window, tie)
    IN [db |-> stored_db,
        anomalies |->
            IF stage = "align" THEN detect_alignment_drift(source, current_metrics, tie)
            ELSE IF stage = "call" THEN detect_calling_drift(source, current_metrics, tie)
            ELSE IF stage = "annotate" THEN detect_annotation_drift(current_metrics)
            ELSE IF stage = "predict" THEN detect_prediction_drift(source, current_metrics, tie)
            ELSE <<>>,
        stored |-> (Len(db) + 1)..Len(stored_db),
        read |-> IF reads THEN {rowids[i] : i \in 1..Len(rowids)} ELSE {}]


-----------------------------------------------------------------------------
(* Hypothesis ranker (analysis/hypotheses.py).                              *)

\* the catalog, in declaration order
HypothesisIds ==
    <<"annotation_drift", "caller_drift", "reference_drift",
      "mapping_bias", "schema_mismatch", "batch_effect">>

Signatures(hyp_id) ==
    CASE hyp_id = "annotation_drift" -> {"clinvar_chi2", "consequence_js"}
      [] hyp_id = "caller_drift" -> {"titv_drift"}
      [] hyp_id = "reference_drift" -> {"per_chr_density"}
      [] hyp_id = "mapping_bias" -> {"softclip_rate"}
      [] hyp_id = "schema_mismatch" -> {"ece_increase"}
      [] hyp_id = "batch_effect" -> {"clinvar_chi2", "per_chr_density", "titv_drift"}

\* a catalog whose annotation_drift entry names no version indicator
VersionIndicators_without_db(hyp_id) ==
    CASE hyp_id = "caller_drift" -> {"caller_change"}
      [] hyp_id = "reference_drift" -> {"reference_change"}
      [] hyp_id = "schema_mismatch" -> {"model_change"}
      [] OTHER -> {}

VersionIndicators(hyp_id) ==
    CASE hyp_id = "annotation_drift" -> {"db_version_change"}
      [] hyp_id = "caller_drift" -> {"caller_change"}
      [] hyp_id = "reference_drift" -> {"reference_change"}
      [] hyp_id = "schema_mismatch" -> {"model_change"}
      [] OTHER -> {}

Priors(change) ==
    CASE change = "reference_change" -> 800
      [] change = "db_version_change" -> 900
      [] change = "caller_change" -> 700
      [] change = "model_change" -> 600
      [] change = "batch_effect" -> 300
      [] OTHER -> 0

\* self.likelihoods.get(signature, {}).get(hyp_id, 0.0)
Likelihoods(signature, hyp_id) ==
    CASE signature = "clinvar_chi2" /\ hyp_id = "annotation_drift" -> 900
      [] signature = "clinvar_chi2" /\ hyp_id = "batch_effect" -> 200
      [] signature = "per_chr_density" /\ hyp_id = "reference_drift" -> 800
      [] signature = "per_chr_density" /\ hyp_id = "batch_effect" -> 300
      [] signature = "titv_drift" /\ hyp_id = "caller_drift" -> 800
      [] signature = "titv_drift" /\ hyp_id = "batch_effect" -> 400
      [] signature = "softclip_rate" /\ hyp_id = "mapping_bias" -> 700
      [] signature = "softclip_rate" /\ hyp_id = "batch_effect" -> 300
      [] signature = "ece_increase" /\ hyp_id = "schema_mismatch" -> 800
      [] signature = "ece_increase" /\ hyp_id = "model_drift" -> 600
      [] signature = "consequence_js" /\ hyp_id = "annotation_drift" -> 700
      [] signature = "consequence_js" /\ hyp_id = "batch_effect" -> 200
      [] OTHER -> 0

\* _extract_version_changes: kg_delta is the set of its true flags
extract_version_changes(kg_delta) ==
    (IF "reference_changed" \in kg_delta THEN <<"reference_change">> ELSE <<>>)
    \o (IF "db_version_changed" \in kg_delta THEN <<"db_version_change">> ELSE <<>>)
    \o (IF "caller_changed" \in kg_delta THEN <<"caller_change">> ELSE <<>>)
    \o (IF "model_changed" \in kg_delta THEN <<"model_change">> ELSE <<>>)

RECURSIVE NegLog10(_)
\* -log10(p) in units of 0.001 for p in units of 1e-6; exact on the powers of
\* ten the detector rules emit, rounded up to the next one in between
NegLog10(p) == IF p < 10 THEN 6000 ELSE NegLog10(p \div 10) - 1000

RECURSIVE PriorScore(_, _)
PriorScore(hyp_id, version_changes) ==
    IF version_changes = <<>> THEN 0
    ELSE (IF Head(version_changes) \in VersionIndicators(hyp_id)
          THEN Priors(Head(version_changes)) ELSE 0)
         + PriorScore(hyp_id, Tail(version_changes))

RECURSIVE EvidenceScore(_, _)
\* the likelihood of every matching signature plus the boost of every
\* matching anomaly: min(effect * 0.5, 1.0) + max(0, -log10(p) * 0.1)
EvidenceScore(hyp_id, anomalies) ==
    IF anomalies = <<>> THEN 0
    ELSE LET a == Head(anomalies)
         IN (IF a.metric \in Signatures(hyp_id)
             THEN Likelihoods(a.metric, hyp_id)
                  + Min(a.effect \div 2, 1000) + Max(0, NegLog10(a.p) \div 10)
             ELSE 0)
            + EvidenceScore(hyp_id, Tail(anomalies))

calculate_hypothesis_score(hyp_id, version_changes, anomalies) ==
    PriorScore(hyp_id, version_changes) + EvidenceScore(hyp_id, anomalies)

\* round(score, 2); a score that ends in exactly 5 thousandths is rounded up
\* here, where Python rounds the binary value the float sum happens to have
Round2(score) == ((score + 5) \div 10) * 10

\* where sorted(..., reverse=True) puts an item: after every item that does not
\* have a smaller key (the sort is stable)
InsertRanked(ranked, item) ==
    LET k == Cardinality({i \in 1..Len(ranked) : ranked[i].raw >= item.raw})
    IN SubSeq(ranked, 1, k) \o <<item>> \o SubSeq(ranked, k + 1, Len(ranked))

RECURSIVE SortByScore(_, _)
SortByScore(items, ranked) ==
    IF items = <<>> THEN ranked
    ELSE SortByScore(Tail(items), InsertRanked(ranked, Head(items)))

rank_hypotheses(kg_delta, anomalies) ==
    LET version_changes == extract_version_changes(kg_delta)
        scores == [i \in 1..Len(HypothesisIds) |->
                     [id |-> HypothesisIds[i],
                      raw |-> calculate_hypothesis_score(HypothesisIds[i],
                                                         version_changes, anomalies)]]
        sorted == SortByScore(scores, <<>>)
    IN [i \in 1..Len(sorted) |->
          [id |-> sorted[i].id, score |-> Round2(sorted[i].raw)]]

-----------------------------------------------------------------------------
(* Counterfactual probes (analysis/probes.py).  The stage executors are     *)
(* external: what they return is an input, exec, of the probe.              *)

\* _calculate_explains_percentage
calculate_explains_percentage(effect_size, threshold) ==
    IF effect_size > threshold
    THEN Min(800 + (effect_size - threshold) \div 2, 1000)
    ELSE (effect_size * 800) \div threshold

\* _calculate_annotation_effect_size
calculate_annotation_effect_size(old_pathogenic, new_pathogenic) ==
    IF old_pathogenic > 0
    THEN (Abs(new_pathogenic - old_pathogenic) * 1000) \div old_pathogenic
    ELSE 0

ProbeResult(probe, effect_size, p, explains_pct) ==
    [probe |-> probe, effect_size |-> effect_size, p |-> p, explains_pct |-> explains_pct]

reannotate_probe(vcf_is_annotation, old_db, new_db, exec) ==
    LET effect_size == calculate_annotation_effect_size(exec.old_pathogenic,
                                                        exec.new_pathogenic)
    IN IF vcf_is_annotation \/ old_db # new_db
       THEN ProbeResult("reannotate", 350, 1, 820)
       ELSE ProbeResult("reannotate", effect_size, 1,
                        calculate_explains_percentage(effect_size, 350))

realign_recall_locus_probe(exec) ==
    LET recall_diff == IF exec.truth_exists THEN 50 ELSE 0
    IN ProbeResult("realign_recall_locus", Abs(recall_diff),
                   IF recall_diff > 50 THEN 10000 ELSE 100000,
                   calculate_explains_percentage(Abs(recall_diff), 50))

downsample_noise_probe(exec) ==
    LET titv_diff == Abs(exec.titv_first - exec.titv_second)
    IN ProbeResult("downsample_noise", titv_diff,
                   IF titv_diff > 200 THEN 10000 ELSE 100000,
                   calculate_explains_percentage(titv_diff, 200))

caller_version_probe(exec) ==
    LET titv_diff == Abs(exec.titv_first - exec.titv_second)
    IN ProbeResult("caller_version", titv_diff,
                   IF titv_diff > 200 THEN 10000 ELSE 100000,
                   calculate_explains_percentage(titv_diff, 200))

schema_normalize_probe(exec) ==
    LET ece_diff == exec.ece_first - exec.ece_second
    IN ProbeResult("schema_normalize", ece_diff,
                   IF ece_diff > 50 THEN 10000 ELSE 100000,
                   calculate_explains_percentage(ece_diff, 50))


-----------------------------------------------------------------------------
(* Remediation engine (analysis/report.py).  A manifest is the sequence of  *)
(* its samples; a sample carries what replaying it through the executors    *)
(* gives: whether the replay succeeded and the metrics it reported.         *)

\* _check_drift_resolved
check_drift_resolved(sample) ==
    /\ ~(sample.softclip_rate > 100)
    /\ ~(Abs(sample.titv - 2100) > 200)
    /\ ~(sample.pathogenic < 10)

NewResults ==
    [samples_processed |-> 0, samples_passed |-> 0, metrics_restored |-> FALSE,
     drift_resolved |-> FALSE, details |-> [x \in {} |-> FALSE]]

\* an iteration that leaves the loop's bookkeeping out for a failing sample
MicrocohortStep_passed_only(results, sample) ==
    IF sample.success
    THEN [results EXCEPT
            !.samples_passed = @ + 1,
            !.drift_resolved = IF check_drift_resolved(sample) THEN TRUE ELSE @,
            !.samples_processed = @ + 1,
            !.details = [x \in (DOMAIN @) \cup {sample.id} |->
                            IF x = sample.id THEN sample.success ELSE @[x]]]
    ELSE results

\* one iteration of the loop over the samples of the manifest
MicrocohortStep(results, sample) ==
    [results EXCEPT
        !.samples_passed = IF sample.success THEN @ + 1 ELSE @,
        !.drift_resolved = IF sample.success /\ check_drift_resolved(sample)
                           THEN TRUE ELSE @,
        !.samples_processed = @ + 1,
        !.details = [x \in (DOMAIN @) \cup {sample.id} |->
                        IF x = sample.id THEN sample.success ELSE @[x]]]

RECURSIVE MicrocohortFold(_, _)
MicrocohortFold(samples, results) ==
    IF samples = <<>> THEN results
    ELSE MicrocohortFold(Tail(samples), MicrocohortStep(results, Head(samples)))

apply_patch_on_microcohort(patch, manifest) ==
    LET results == MicrocohortFold(manifest, NewResults)
    IN [results EXCEPT !.metrics_restored = results.samples_passed > 0]

-----------------------------------------------------------------------------
(* Configuration (analysis/config.py).                                      *)

min_explains_pct == 800
min_significance_p == 100
max_probes == 5

probe_priorities ==
    <<"reannotate", "caller_version", "realign_locus",
      "downsample_noise", "schema_normalize">>

\* is_converged with "or" between the two thresholds
is_converged_either(explains_pct, p_value) ==
    explains_pct >= min_explains_pct \/ p_value <= min_significance_p

is_converged(explains_pct, p_value) ==
    explains_pct >= min_explains_pct /\ p_value <= min_significance_p


-----------------------------------------------------------------------------
(* Inputs.                                                                  *)

NoResults == [none |-> TRUE]     \* Optional[...] = None

\* what the stage executors report for a pipeline run, per stage and in the
\* order run_pipeline writes them (pipeline.py _simulate_metrics); the
\* annotation counts depend on the annotated VCF
RunMetrics(clinvar_counts) ==
    << <<"align", << <<"depth_hist", List(<<100, 200, 300, 250, 150>>)>>,
                     <<"dup_rate", Num(120)>>,
                     <<"softclip_rate", Num(50)>>,
                     <<"gc_bias_proxy", Num(20)>> >> >>,
       <<"call", << <<"titv", Num(2100)>>,
                    <<"qual_hist", List(<<50, 100, 200, 300, 250, 100>>)>>,
                    <<"per_chr_density", Dict([chr21 |-> 800, chr22 |-> 900])>> >> >>,
       <<"annotate", << <<"clinvar_counts", Dict(clinvar_counts)>>,
                        <<"consequence_hist",
                          Dict([missense |-> 400, synonymous |-> 300, nonsense |-> 100])>>,
                        <<"transcript_policy_counts", Dict([canonical |-> 700, all |-> 300])>> >> >>,
       <<"predict", << <<"score_mean", Num(650)>>,
                       <<"score_var", Num(120)>>,
                       <<"threshold_crossers_pct", Num(150)>>,
                       <<"ece", Num(80)>>,
                       <<"brier", Num(180)>> >> >> >>

ClinvarOutputs ==
    {[pathogenic |-> 15, benign |-> 85, vus |-> 200],
     [pathogenic |-> 50, benign |-> 50, vus |-> 200]}

\* what the executors report inside a probe: the simulated constants, or a
\* second run that differs from the first (another Ti/Tv, a worse
\* calibration error, a truth set to compare with)
ExecOutputs ==
    {[truth_exists |-> FALSE, old_pathogenic |-> 15, new_pathogenic |-> 15,
      titv_first |-> 2100, titv_second |-> 2100, ece_first |-> 80, ece_second |-> 80],
     [truth_exists |-> TRUE, old_pathogenic |-> 15, new_pathogenic |-> 25,
      titv_first |-> 2100, titv_second |-> 2400, ece_first |-> 80, ece_second |-> 120]}

\* probe names a caller may send: the five run_probe dispatches on, and the
\* planner's "realign_locus"
ProbeRequests ==
    {"reannotate", "realign_recall_locus", "downsample_noise", "caller_version",
     "schema_normalize", "realign_locus"}

Patches == {"pin_annot_db"}

Sample(id, success, softclip_rate, titv, pathogenic) ==
    [id |-> id, success |-> success, softclip_rate |-> softclip_rate,
     titv |-> titv, pathogenic |-> pathogenic]

\* micro-cohort manifests: a sample whose replay fails and a sample that
\* still drifts after the patch
Manifests ==
    {<<Sample(1, FALSE, 0, 2100, 0), Sample(2, TRUE, 200, 2100, 15)>>}

RunIds == 0..MaxRuns

\* the case ids of the model.  Where the server starts without Cases, 1 is
\* the id uuid4 draws for a Case and 0 is an id that is never drawn (a request
\* with it names no Case)
CaseIds == {0, 1}
FreshCaseIds == CaseIds \ ({0} \cup DOMAIN investigations)

-----------------------------------------------------------------------------
(* API handlers (api/main.py).                                              *)

\* what a handler returns: its response model, or the HTTP error every
\* "except Exception" turns a failure into, whose detail is str(e)
Reply(op, body) == [status |-> "ok", op |-> op, body |-> body]
Failure(detail) == [status |-> "error", op |-> "", body |-> detail]

\* InvestigationState(case_id=..., state="DETECT", anomalies=...)
InvestigationState(anomalies) ==
    [state |-> "DETECT", current_hypothesis |-> "None", probe_count |-> 0,
     anomalies |-> anomalies, hypotheses |-> <<>>, probe_results |-> <<>>,
     remediation_applied |-> "None", validation_results |-> NoResults]

Init ==
    /\ metrics_db = <<>>
    /\ now = 0
    /\ run_artifacts = [x \in {} |-> <<>>]
    /\ investigations = [x \in {} |-> NoResults]
    /\ response = Reply("none", <<>>)
    /\ requests = <<>>

\* POST /api/run: a new run with the metrics the executors reported, or a
\* failure of a stage
run_pipeline(clinvar_counts, ok) ==
    LET run_id == Cardinality(DOMAIN run_artifacts) + 1
    IN /\ IF ok
          THEN /\ run_artifacts' = run_artifacts @@ (run_id :> RunMetrics(clinvar_counts))
               /\ response' = Reply("run_pipeline", run_id)
          ELSE /\ UNCHANGED run_artifacts
               /\ response' = Failure("stage failed")
       /\ UNCHANGED <<metrics_db, now, investigations>>

RECURSIVE DetectStages(_, _, _, _, _)
\* the loop of check_drift over the stages of the run: the store after it and
\* the anomalies of all stages
DetectStages(db, run_id, metrics, ts, tie) ==
    IF metrics = <<>> THEN [db |-> db, anomalies |-> <<>>]
    ELSE LET d == detect_drift(db, run_id, Head(metrics)[1], Head(metrics)[2], ts, tie)
             rest == DetectStages(d.db, run_id, Tail(metrics), ts, tie)
         IN [db |-> rest.db, anomalies |-> d.anomalies \o rest.anomalies]

\* a drift check that opens an investigation whatever it found
open_investigation_always(all_anomalies) == Len(all_anomalies) >= 0

\* open_investigation = len(all_anomalies) > 0
open_investigation(all_anomalies) == Len(all_anomalies) > 0

\* POST /api/check_drift.  llm_ok: the narration calls return; when one of
\* them raises, the handler answers 500 after the Case was registered.
check_drift(run_id, tie, llm_ok) ==
    IF run_id \notin DOMAIN run_artifacts
    THEN /\ response' = Failure("Run not found")
         /\ UNCHANGED <<metrics_db, now, run_artifacts, investigations>>
    ELSE LET d == DetectStages(metrics_db, run_id, run_artifacts[run_id], now, tie)
             case_id == CHOOSE c \in FreshCaseIds : TRUE
         IN /\ metrics_db' = d.db
            /\ IF open_investigation(d.anomalies)
               THEN /\ investigations' =
                          investigations @@ (case_id :> InvestigationState(d.anomalies))
                    /\ response' =
                          IF llm_ok
                          THEN Reply("check_drift", [anomalies |-> d.anomalies, case_id |-> case_id])
                          ELSE Failure("narration failed")
               ELSE /\ UNCHANGED investigations
                    /\ response' =
                          Reply("check_drift", [anomalies |-> d.anomalies, case_id |-> 0])
            /\ UNCHANGED <<now, run_artifacts>>


\* "if not case.hypotheses": rank once, with the simplified kg_delta
CaseHypotheses(case) ==
    IF case.hypotheses = <<>>
    THEN rank_hypotheses({"db_version_changed"}, case.anomalies)
    ELSE case.hypotheses

\* a planner that always takes the first priority
PlannedProbe_first(case) == probe_priorities[1]

\* config.probe_priorities[case.probe_count % len(config.probe_priorities)]
PlannedProbe(case) ==
    probe_priorities[(case.probe_count % Len(probe_priorities)) + 1]

\* the Case after next_probe
PlanCase(case) ==
    LET hypotheses == CaseHypotheses(case)
    IN [case EXCEPT !.hypotheses = hypotheses,
                    !.state = "PLAN",
                    !.current_hypothesis =
                        IF hypotheses # <<>> THEN hypotheses[1].id ELSE "annotation_drift"]

\* POST /api/next_probe
next_probe(case_id) ==
    IF case_id \notin DOMAIN investigations
    THEN /\ response' = Failure("Case not found")
         /\ UNCHANGED <<metrics_db, now, run_artifacts, investigations>>
    ELSE LET case == investigations[case_id]
             planned == PlanCase(case)
         IN /\ investigations' = [investigations EXCEPT ![case_id] = planned]
            /\ response' = Reply("next_probe", [hypothesis |-> planned.current_hypothesis,
                                                probe |-> PlannedProbe(case)])
            /\ UNCHANGED <<metrics_db, now, run_artifacts>>

\* the if/elif chain of run_probe: the names it dispatches on
KnownProbe(probe) ==
    probe \in {"reannotate", "realign_recall_locus", "downsample_noise",
               "caller_version", "schema_normalize"}

\* the probe run_probe calls for a name, with the arguments it passes
DispatchProbe(probe, exec) ==
    CASE probe = "reannotate" -> reannotate_probe(FALSE, "v101", "v102", exec)
      [] probe = "realign_recall_locus" -> realign_recall_locus_probe(exec)
      [] probe = "downsample_noise" -> downsample_noise_probe(exec)
      [] probe = "caller_version" -> caller_version_probe(exec)
      [] probe = "schema_normalize" -> schema_normalize_probe(exec)

\* a run_probe that counts the probe and keeps no result
RecordProbe_without_result(case, result) ==
    [case EXCEPT !.state = IF is_converged(result.explains_pct, result.p)
                           THEN "CONVERGED" ELSE "ASSESS",
                 !.probe_count = @ + 1]

\* a run_probe that drops the cached ranking of the Case with every result
RecordProbe_invalidating(case, result) ==
    [case EXCEPT !.state = IF is_converged(result.explains_pct, result.p)
                           THEN "CONVERGED" ELSE "ASSESS",
                 !.probe_count = @ + 1,
                 !.probe_results = Append(@, result),
                 !.hypotheses = <<>>]

\* "Update case state" and "Check convergence" of run_probe
RecordProbe(case, result) ==
    [case EXCEPT !.state = IF is_converged(result.explains_pct, result.p)
                           THEN "CONVERGED" ELSE "ASSESS",
                 !.probe_count = @ + 1,
                 !.probe_results = Append(@, result)]

\* run_probe counting the probe before it dispatches on the probe name
run_probe_counting_first(case_id, probe, exec, raises) ==
    IF case_id \notin DOMAIN investigations
    THEN /\ response' = Failure("Case not found")
         /\ UNCHANGED <<metrics_db, now, run_artifacts, investigations>>
    ELSE IF ~KnownProbe(probe) \/ raises
    THEN /\ investigations' =
               [investigations EXCEPT ![case_id].probe_count = @ + 1]
         /\ response' = Failure(IF ~KnownProbe(probe) THEN "Unknown probe"
                                ELSE "probe failed")
         /\ UNCHANGED <<metrics_db, now, run_artifacts>>
    ELSE LET result == DispatchProbe(probe, exec)
         IN /\ investigations' =
                  [investigations EXCEPT ![case_id] = RecordProbe(@, result)]
            /\ response' = Reply("run_probe", result)
            /\ UNCHANGED <<metrics_db, now, run_artifacts>>

\* POST /api/run_probe.  raises: the probe itself raised (a stage or a plot
\* failed); the handler then answers 500 like for the input errors.
run_probe(case_id, probe, exec, raises) ==
    IF case_id \notin DOMAIN investigations \/ ~KnownProbe(probe) \/ raises
    THEN /\ response' = Failure(IF case_id \notin DOMAIN investigations
                                THEN "Case not found"
                                ELSE IF ~KnownProbe(probe) THEN "Unknown probe"
                                ELSE "probe failed")
         /\ UNCHANGED <<metrics_db, now, run_artifacts, investigations>>
    ELSE LET result == DispatchProbe(probe, exec)
         IN /\ investigations' =
                  [investigations EXCEPT ![case_id] = RecordProbe(@, result)]
            /\ response' = Reply("run_probe", result)
            /\ UNCHANGED <<metrics_db, now, run_artifacts>>

\* "Update case state" of remediate
ValidateCase(case, patch, validation_results) ==
    [case EXCEPT !.state = "VALIDATE",
                 !.remediation_applied = patch,
                 !.validation_results = validation_results]

\* POST /api/remediate.  manifest_found: the cohort manifest can be opened.
remediate(case_id, patch, manifest, manifest_found) ==
    IF case_id \notin DOMAIN investigations \/ ~manifest_found
    THEN /\ response' = Failure(IF case_id \notin DOMAIN investigations
                                THEN "Case not found" ELSE "manifest not found")
         /\ UNCHANGED <<metrics_db, now, run_artifacts, investigations>>
    ELSE LET validation_results == apply_patch_on_microcohort(patch, manifest)
         IN /\ investigations' =
                  [investigations EXCEPT
                      ![case_id] = ValidateCase(@, patch, validation_results)]
            /\ response' = Reply("remediate",
                                 [replay_passed |-> validation_results.samples_passed > 0,
                                  metrics_restored |-> validation_results.metrics_restored])
            /\ UNCHANGED <<metrics_db, now, run_artifacts>>

\* "Update state" of get_summary
SummaryCase(case) == [case EXCEPT !.state = "SUMMARY"]

\* POST /api/summary
get_summary(case_id) ==
    IF case_id \notin DOMAIN investigations
    THEN /\ response' = Failure("Case not found")
         /\ UNCHANGED <<metrics_db, now, run_artifacts, investigations>>
    ELSE /\ investigations' = [investigations EXCEPT ![case_id] = SummaryCase(@)]
         /\ response' = Reply("summary", <<>>)
         /\ UNCHANGED <<metrics_db, now, run_artifacts>>

-----------------------------------------------------------------------------
(* Specification Spec: the API, every handler with every input.             *)

\* check_drift calls that reached the store (each stores one ece sample)
ChecksDone ==
    Cardinality({i \in 1..Len(metrics_db) : metrics_db[i].metric_name = "ece"})

RECURSIVE SumProbeCounts(_)
SumProbeCounts(ids) ==
    IF ids = {} THEN 0
    ELSE LET c == CHOOSE c \in ids : TRUE
         IN investigations[c].probe_count + SumProbeCounts(ids \ {c})

ProbesDone == SumProbeCounts(DOMAIN investigations)

Next ==
    \/ \E clinvar_counts \in ClinvarOutputs, ok \in BOOLEAN :
          /\ Cardinality(DOMAIN run_artifacts) < MaxRuns
          /\ run_pipeline(clinvar_counts, ok)
          /\ UNCHANGED requests
    \/ \E run_id \in RunIds, tie \in TieOrders, llm_ok \in BOOLEAN :
          /\ ChecksDone < MaxChecks
          /\ FreshCaseIds # {}
          /\ check_drift(run_id, tie, llm_ok)
          /\ UNCHANGED requests
    \/ \E case_id \in CaseIds :
          /\ next_probe(case_id)
          /\ UNCHANGED requests
    \/ \E case_id \in CaseIds, probe \in ProbeRequests, exec \in ExecOutputs,
          raises \in BOOLEAN :
          /\ ProbesDone < MaxProbeCalls
          /\ run_probe(case_id, probe, exec, raises)
          /\ UNCHANGED requests
    \/ \E case_id \in CaseIds, patch \in Patches, manifest \in Manifests,
          manifest_found \in BOOLEAN :
          /\ remediate(case_id, patch, manifest, manifest_found)
          /\ UNCHANGED requests
    \/ \E case_id \in CaseIds :
          /\ get_summary(case_id)
          /\ UNCHANGED requests

Spec == Init /\ [][Next]_vars

-----------------------------------------------------------------------------
(* Specification SpecBudget: one drifting run, one Case, and probes that    *)
(* miss the convergence thresholds, run past the probe budget.              *)

\* probes whose p-value is 0.01 or 0.1 whatever the executors report
BudgetProbes == {"caller_version", "downsample_noise"}

NextBudget ==
    \/ \E clinvar_counts \in {c \in ClinvarOutputs : c.pathogenic = 50} :
          /\ Cardinality(DOMAIN run_artifacts) < MaxRuns
          /\ run_pipeline(clinvar_counts, TRUE)
          /\ UNCHANGED requests
    \/ \E run_id \in DOMAIN run_artifacts :
          /\ ChecksDone < MaxChecks
          /\ FreshCaseIds # {}
          /\ check_drift(run_id, "rowid_asc", TRUE)
          /\ UNCHANGED requests
    \/ \E case_id \in DOMAIN investigations :
          /\ next_probe(case_id)
          /\ UNCHANGED requests
    \/ \E case_id \in DOMAIN investigations, probe \in BudgetProbes,
          exec \in ExecOutputs :
          /\ ProbesDone < MaxBudgetProbes
          /\ run_probe(case_id, probe, exec, FALSE)
          /\ UNCHANGED requests

SpecBudget == Init /\ [][NextBudget]_vars

\* the run_id the direct calls pass: it is stored with the rows and never read
DetectorRunIds == {"run_1"}

-----------------------------------------------------------------------------
(* Specification SpecDetector: the drift detector called directly, stage by *)
(* stage, on a store that starts empty.                                     *)

\* detector.detect_drift(run_id, stage, current_metrics): the call, what it
\* returned, the rows it stored and the rows its baseline query read
detect(run_id, stage, current_metrics, tie) ==
    LET d == detect_drift(metrics_db, run_id, stage, current_metrics, now, tie)
    IN /\ metrics_db' = d.db
       /\ response' = Reply("detect_drift",
                            [stage |-> stage, current_metrics |-> current_metrics,
                             anomalies |-> d.anomalies, stored |-> d.stored,
                             read |-> d.read])
       /\ UNCHANGED <<now, run_artifacts, investigations>>

\* CURRENT_TIMESTAMP moves to the next second
tick ==
    /\ now' = now + 1
    /\ UNCHANGED <<metrics_db, run_artifacts, investigations, response>>

\* <<stage, current_metrics>> of the calls: a usual, a high and a zero
\* soft-clip rate, ClinVar counts with a pathogenic share above 0.15 and of exactly
\* 0.15, one sample of each other stage, one of a stage the detector
\* has no rule for, and align runs with a usual and a shifted depth histogram
DetectorInputs ==
    {<<"align", << <<"softclip_rate", Num(50)>> >> >>,
     <<"align", << <<"softclip_rate", Num(90)>> >> >>,
     <<"align", << <<"softclip_rate", Num(0)>> >> >>,
     <<"call", << <<"titv", Num(2100)>> >> >>,
     <<"annotate", << <<"clinvar_counts",
                        Dict([pathogenic |-> 50, benign |-> 50, vus |-> 200])>> >> >>,
     <<"annotate", << <<"clinvar_counts",
                        Dict([pathogenic |-> 15, benign |-> 85])>> >> >>,
     <<"predict", << <<"ece", Num(80)>> >> >>,
     <<"qc", << <<"dup_rate", Num(120)>> >> >>,
     <<"align", << <<"depth_hist", List(<<100, 200, 300, 250, 150>>)>>,
                   <<"softclip_rate", Num(50)>> >> >>,
     <<"align", << <<"depth_hist", List(<<600, 700, 800, 750, 650>>)>>,
                   <<"softclip_rate", Num(50)>> >> >>}

\* the stages detect_drift has a rule for
KnownStages == {"align", "call", "annotate", "predict"}

NextDetector ==
    \/ \E run_id \in DetectorRunIds, input \in DetectorInputs, tie \in TieOrders :
          /\ Len(metrics_db) < MaxRows
          /\ detect(run_id, input[1], input[2], tie)
          /\ UNCHANGED requests
    \/ /\ now < MaxClock
       /\ tick
       /\ UNCHANGED requests

SpecDetector == Init /\ [][NextDetector]_vars

-----------------------------------------------------------------------------
(* Specification SpecBaseline: the metric store written and queried         *)
(* directly, with small limits.                                             *)

\* detector.store_metrics(run_id, stage, metrics)
store(run_id, stage, metrics) ==
    /\ metrics_db' = store_metrics(metrics_db, run_id, stage, metrics, now)
    /\ response' = Reply("store_metrics", <<>>)
    /\ UNCHANGED <<now, run_artifacts, investigations>>

\* detector.get_baseline_metrics(stage, limit): the call, the rows its query
\* returned (in the order it returned them) and the series built from them
baseline(stage, limit, tie) ==
    /\ response' = Reply("get_baseline_metrics",
                         [stage |-> stage, limit |-> limit,
                          rowids |-> QueryBaseline(metrics_db, stage, limit, tie),
                          baseline |-> get_baseline_metrics(metrics_db, stage, limit, tie)])
    /\ UNCHANGED <<metrics_db, now, run_artifacts, investigations>>

\* <<stage, metrics>> of the store calls: align runs that report two metrics
\* or one, and call runs that report the same metric as a number or as a map
StoreInputs ==
    {<<"align", << <<"dup_rate", Num(120)>>, <<"softclip_rate", Num(50)>> >> >>,
     <<"align", << <<"softclip_rate", Num(90)>> >> >>,
     <<"call", << <<"titv", Num(2100)>> >> >>,
     <<"call", << <<"per_chr_density", Num(850)>> >> >>,
     <<"call", << <<"per_chr_density", Dict([chr21 |-> 800, chr22 |-> 900])>> >> >>}

\* the limits of the baseline queries
BaselineLimits == {1, 2}

NextBaseline ==
    \/ \E run_id \in DetectorRunIds, input \in StoreInputs :
          /\ Len(metrics_db) < MaxRows
          /\ store(run_id, input[1], input[2])
          /\ UNCHANGED requests
    \/ \E stage \in {"align", "call"}, limit \in BaselineLimits, tie \in TieOrders :
          /\ baseline(stage, limit, tie)
          /\ UNCHANGED requests
    \/ /\ now < MaxClock
       /\ tick
       /\ UNCHANGED requests

SpecBaseline == Init /\ [][NextBaseline]_vars

-----------------------------------------------------------------------------
(* Specification SpecRanker: the hypothesis ranker called directly.         *)

\* hypothesis_ranker.rank_hypotheses(kg_delta, anomalies): the call and what
\* it returned
rank(kg_delta, anomalies) ==
    /\ response' = Reply("rank_hypotheses",
                         [kg_delta |-> kg_delta, anomalies |-> anomalies,
                          ranked |-> rank_hypotheses(kg_delta, anomalies)])
    /\ UNCHANGED <<metrics_db, now, run_artifacts, investigations>>

\* kg_delta: any set of version-change flags
KgDeltas ==
    SUBSET {"reference_changed", "db_version_changed", "caller_changed", "model_changed"}

\* the anomalies of one drift check, stage by stage: at most one per rule,
\* with effect sizes the rules can give (a Ti/Tv 0.212, 1.5 or 1.9 away from
\* the median, an ECE 0.216 or 1.5 above it)
RankerAnomalies ==
    {softclip \o titv \o clinvar \o ece :
        softclip \in {<<>>, <<Anomaly("alignment", "softclip_rate_increase", 1000, 800)>>},
        titv \in {<<>>, <<Anomaly("calling", "titv_drift", 1000, 212)>>,
                  <<Anomaly("calling", "titv_drift", 1000, 1500)>>,
                  <<Anomaly("calling", "titv_drift", 1000, 1900)>>},
        clinvar \in {<<>>, <<Anomaly("annotation", "clinvar_chi2", 1, 350)>>},
        ece \in {<<>>, <<Anomaly("prediction", "ece_increase", 1000, 216)>>,
                 <<Anomaly("prediction", "ece_increase", 1000, 1500)>>}}

NextRanker ==
    \E kg_delta \in KgDeltas, anomalies \in RankerAnomalies :
       /\ rank(kg_delta, anomalies)
       /\ UNCHANGED requests

SpecRanker == Init /\ [][NextRanker]_vars

-----------------------------------------------------------------------------
(* Specification SpecLoop: clients send requests on two Cases without       *)
(* waiting for each other; the handlers run on the event loop of            *)
(* uvicorn.run(app).                                                        *)

\* the metrics of the run both Cases were opened for
LoopRun == RunMetrics([pathogenic |-> 50, benign |-> 50, vus |-> 200])

\* the two drift checks of that run, one after the other
FirstCheck == DetectStages(<<>>, 1, LoopRun, 0, "rowid_asc")
SecondCheck == DetectStages(FirstCheck.db, 1, LoopRun, 0, "rowid_asc")

\* the server after POST /api/run and two POST /api/check_drift: a Case under
\* each case id
InitLoop ==
    /\ metrics_db = SecondCheck.db
    /\ now = 0
    /\ run_artifacts = (1 :> LoopRun)
    /\ investigations = (0 :> InvestigationState(FirstCheck.anomalies))
                          @@ (1 :> InvestigationState(SecondCheck.anomalies))
    /\ response = Reply("check_drift",
                        [anomalies |-> SecondCheck.anomalies, case_id |-> 1])
    /\ requests = <<>>

\* the operations on a Case the clients call
LoopOps == {"next_probe", "run_probe", "remediate"}

\* the probes the clients ask for
LoopProbes == {"caller_version", "reannotate"}

\* the requests whose handler is executing
Running == {i \in DOMAIN requests : requests[i].pc = "running"}

\* a client sends a request; its handler has not started
send(op, case_id) ==
    /\ requests' = Append(requests, [op |-> op, case_id |-> case_id, pc |-> "waiting"])
    /\ UNCHANGED <<metrics_db, now, run_artifacts, investigations, response>>

\* the event loop enters the handler of a request.  The handlers are
\* "async def" without any await, so the loop enters one only when no other
\* handler is executing.
start(i) ==
    /\ requests[i].pc = "waiting"
    /\ Running = {}
    /\ requests' = [requests EXCEPT ![i].pc = "running"]
    /\ UNCHANGED <<metrics_db, now, run_artifacts, investigations, response>>

\* the handler of request i returns
finish_next_probe(i) ==
    /\ requests[i].pc = "running"
    /\ requests[i].op = "next_probe"
    /\ next_probe(requests[i].case_id)
    /\ requests' = [requests EXCEPT ![i].pc = "done"]

finish_run_probe(i, probe, exec) ==
    /\ requests[i].pc = "running"
    /\ requests[i].op = "run_probe"
    /\ run_probe(requests[i].case_id, probe, exec, FALSE)
    /\ requests' = [requests EXCEPT ![i].pc = "done"]

finish_remediate(i, patch, manifest) ==
    /\ requests[i].pc = "running"
    /\ requests[i].op = "remediate"
    /\ remediate(requests[i].case_id, patch, manifest, TRUE)
    /\ requests' = [requests EXCEPT ![i].pc = "done"]

NextLoop ==
    \/ \E op \in LoopOps, case_id \in CaseIds :
          /\ Len(requests) < MaxRequests
          /\ send(op, case_id)
    \/ \E i \in DOMAIN requests : start(i)
    \/ \E i \in DOMAIN requests : finish_next_probe(i)
    \/ \E i \in DOMAIN requests, probe \in LoopProbes, exec \in ExecOutputs :
          finish_run_probe(i, probe, exec)
    \/ \E i \in DOMAIN requests, patch \in Patches, manifest \in Manifests :
          finish_remediate(i, patch, manifest)

SpecLoop == InitLoop /\ [][NextLoop]_vars

-----------------------------------------------------------------------------
(* Specification SpecStore: store_metrics calls of different runs and       *)
(* baseline queries, each on its own sqlite connection, interleaved         *)
(* statement by statement.                                                  *)

\* the limits of the baseline queries: a small one and the default
StoreLimits == {2, baseline_window}

\* the calls whose connection holds the write lock of the database file: an
\* INSERT opened a transaction that is not committed yet
Writers == {i \in DOMAIN requests :
               requests[i].pc = "inserting" /\ requests[i].rows # <<>>}

\* sqlite3.connect(self.db_path) of store_metrics for the run of a new run_id
store_connect(stage, metrics) ==
    /\ requests' = Append(requests, [op |-> "store_metrics",
                                      run_id |-> Len(requests) + 1,
                                      stage |-> stage, metrics |-> metrics,
                                      rows |-> <<>>, pc |-> "inserting"])
    /\ UNCHANGED <<metrics_db, now, run_artifacts, investigations, response>>

\* one iteration of "for metric_name, value in metrics.items()" committing
\* the row as soon as it is inserted
store_insert_autocommit(i) ==
    LET call == requests[i]
        inserted == StoreRows(call.run_id, call.stage, <<Head(call.metrics)>>, now)
    IN /\ call.pc = "inserting"
       /\ call.metrics # <<>>
       /\ inserted # <<>> => Writers \ {i} = {}
       /\ requests' = [requests EXCEPT ![i].metrics = Tail(@)]
       /\ metrics_db' = metrics_db \o inserted
       /\ UNCHANGED <<now, run_artifacts, investigations, response>>

\* one iteration of "for metric_name, value in metrics.items()": an INSERT
\* inside the transaction of the connection (the first one takes the write
\* lock, which no other connection may hold), or nothing for a list
store_insert(i) ==
    LET call == requests[i]
        inserted == StoreRows(call.run_id, call.stage, <<Head(call.metrics)>>, now)
    IN /\ call.pc = "inserting"
       /\ call.metrics # <<>>
       /\ inserted # <<>> => Writers \ {i} = {}
       /\ requests' = [requests EXCEPT ![i].metrics = Tail(@),
                                        ![i].rows = @ \o inserted]
       /\ UNCHANGED <<metrics_db, now, run_artifacts, investigations, response>>

\* an INSERT that waited for the write lock longer than the timeout of the
\* connection raises "database is locked": the call ends, nothing is committed
store_locked(i) ==
    /\ requests[i].pc = "inserting"
    /\ requests[i].metrics # <<>>
    /\ requests[i].rows = <<>>
    /\ Writers \ {i} # {}
    /\ requests' = [requests EXCEPT ![i].pc = "failed"]
    /\ UNCHANGED <<metrics_db, now, run_artifacts, investigations, response>>

\* conn.commit() and conn.close() after the loop
store_commit(i) ==
    /\ requests[i].pc = "inserting"
    /\ requests[i].metrics = <<>>
    /\ metrics_db' = metrics_db \o requests[i].rows
    /\ requests' = [requests EXCEPT ![i].pc = "done", ![i].rows = <<>>]
    /\ UNCHANGED <<now, run_artifacts, investigations, response>>

\* the store calls of the align runs, of two metrics or of one
AlignStoreInputs == {input \in StoreInputs : input[1] = "align"}

NextStore ==
    \/ \E input \in AlignStoreInputs :
          /\ Len(requests) < MaxStores
          /\ store_connect(input[1], input[2])
    \/ \E i \in DOMAIN requests : store_insert(i)
    \/ \E i \in DOMAIN requests : store_locked(i)
    \/ \E i \in DOMAIN requests : store_commit(i)
    \/ \E limit \in StoreLimits, tie \in TieOrders :
          /\ baseline("align", limit, tie)
          /\ UNCHANGED requests
    \/ /\ now < MaxClock
       /\ tick
       /\ UNCHANGED requests

SpecStore == Init /\ [][NextStore]_vars

-----------------------------------------------------------------------------
(* Specification SpecCohort: the remediation engine called directly on      *)
(* micro-cohorts of every mix of failing and passing samples.               *)

\* what the replay of a sample can give: it fails or succeeds, with metrics
\* inside or outside each threshold of _check_drift_resolved
ReplayOutcomes ==
    {[success |-> success, softclip_rate |-> m[1], titv |-> m[2],
      pathogenic |-> pathogenic] :
        success \in BOOLEAN, pathogenic \in {5, 15},
        m \in {<<50, 2100>>, <<200, 2100>>, <<50, 2400>>}}

\* the manifests of up to MaxSamples samples; the k-th sample has id k
CohortManifests ==
    UNION {[1..n -> ReplayOutcomes] : n \in 0..MaxSamples}

ManifestOf(outcomes) ==
    [k \in DOMAIN outcomes |->
        Sample(k, outcomes[k].success, outcomes[k].softclip_rate,
               outcomes[k].titv, outcomes[k].pathogenic)]

\* remediation.apply_patch_on_microcohort(patch, manifest): the call and what
\* it returned
validate(patch, manifest) ==
    /\ response' = Reply("apply_patch_on_microcohort",
                         [manifest |-> manifest,
                          results |-> apply_patch_on_microcohort(patch, manifest)])
    /\ UNCHANGED <<metrics_db, now, run_artifacts, investigations>>

NextCohort ==
    \E patch \in Patches, outcomes \in CohortManifests :
       /\ validate(patch, ManifestOf(outcomes))
       /\ UNCHANGED requests

SpecCohort == Init /\ [][NextCohort]_vars

-----------------------------------------------------------------------------
(* Properties.                                                              *)

Cases == DOMAIN investigations

\* C1: after any sequence of next_probe and run_probe calls on a Case, its
\* probe_count never exceeds max_probes (5).
C1_ProbeCountWithinBudget ==
    \A c \in Cases : investigations[c].probe_count <= max_probes

\* no probe result of the Case meets the thresholds 0.8 and 1e-4
NoProbeConverged(case) ==
    \A i \in 1..Len(case.probe_results) :
        ~(case.probe_results[i].explains_pct >= 800 /\ case.probe_results[i].p <= 100)

\* the states in which a Case is still being probed, or has converged
ProbingStates == {"DETECT", "PLAN", "RUN_PROBE", "ASSESS", "CONVERGED"}

\* C2: when five successive probes on a Case all miss the convergence
\* thresholds, the fifth leaves the Case with probe_count 5 in a terminal
\* state that is neither a probing state nor CONVERGED, and a next_probe on
\* that Case plans no further probe (it does not put the Case into PLAN).
C2_InconclusiveAfterFiveFailures ==
    [][\A c \in Cases :
          LET before == investigations[c]
              after == investigations'[c]
          IN /\ (before.probe_count = 4 /\ after.probe_count = 5
                   /\ NoProbeConverged(after))
                => after.state \notin ProbingStates
             /\ (before.probe_count = 5 /\ NoProbeConverged(before))
                => (after.state # "PLAN" /\ after.probe_count = 5)]_vars

\* C3: immediately after a successful run_probe the Case is CONVERGED if and
\* only if the result of the probe has explains_pct >= 0.8 and p <= 1e-4,
\* and it is in ASSESS otherwise; the next next_probe takes a Case in ASSESS
\* back to PLAN.
C3_ConvergedIffThresholds ==
    [][\A c \in Cases :
          LET after == investigations'[c]
          IN /\ \A probe \in ProbeRequests, exec \in ExecOutputs :
                   (run_probe(c, probe, exec, FALSE) /\ response'.status = "ok")
                   => LET result == after.probe_results[Len(after.probe_results)]
                      IN /\ result = response'.body
                         /\ (after.state = "CONVERGED")
                               <=> (result.explains_pct >= 800 /\ result.p <= 100)
                         /\ after.state \in {"CONVERGED", "ASSESS"}
             /\ (investigations[c].state = "ASSESS" /\ next_probe(c))
                => after.state = "PLAN"]_vars

\* a Case that one probe with explains_pct 0.82 and p 1e-6 converged
C3_Witness ==
    \E c \in Cases :
        /\ investigations[c].probe_count = 1
        /\ investigations[c].state = "CONVERGED"
        /\ investigations[c].probe_results[1].explains_pct = 820
        /\ investigations[c].probe_results[1].p = 1
        /\ response = Reply("run_probe", investigations[c].probe_results[1])

\* C4: once a Case has reached SUMMARY, no later operation puts it into
\* another state.
C4_SummaryIsTerminal ==
    [][\A c \in Cases :
          investigations[c].state = "SUMMARY"
          => investigations'[c].state = "SUMMARY"]_vars

\* C5: once a Case is CONVERGED no operation moves it back to PLAN or
\* ASSESS; it leaves CONVERGED only towards remediation.
C5_ConvergedDoesNotRegress ==
    [][\A c \in Cases :
          investigations[c].state = "CONVERGED"
          => investigations'[c].state \in {"CONVERGED", "REMEDIATE", "VALIDATE"}]_vars

\* C6: a Case enters VALIDATE only from CONVERGED (through remediation), and
\* enters SUMMARY only from VALIDATE.
C6_StateOrder ==
    [][\A c \in Cases :
          LET before == investigations[c].state
              after == investigations'[c].state
          IN /\ (after = "VALIDATE" /\ before # "VALIDATE")
                => before \in {"CONVERGED", "REMEDIATE"}
             /\ (after = "SUMMARY" /\ before # "SUMMARY")
                => before = "VALIDATE"]_vars

\* C7: a Case is registered only by a drift check that found at least one
\* anomaly, and starts in DETECT with probe_count 0 and no probe results; a
\* drift check that found no anomaly registers no Case; every registered
\* Case has a non-empty anomaly list.
C7_CaseOnlyFromAnomalies ==
    [][/\ \A c \in DOMAIN investigations' :
             /\ investigations'[c].anomalies # <<>>
             /\ c \notin Cases
                => /\ \E run_id \in RunIds, tie \in TieOrders, llm_ok \in BOOLEAN :
                         check_drift(run_id, tie, llm_ok)
                   /\ investigations'[c].state = "DETECT"
                   /\ investigations'[c].probe_count = 0
                   /\ investigations'[c].probe_results = <<>>
       /\ (response'.op = "check_drift" /\ response'.body.anomalies = <<>>)
          => investigations' = investigations]_vars

\* a Case a drift check has just opened
C7_Witness ==
    \E c \in Cases :
        /\ response.op = "check_drift"
        /\ response.body.case_id = c
        /\ response.body.anomalies = investigations[c].anomalies
        /\ Len(investigations[c].anomalies) >= 1
        /\ investigations[c].state = "DETECT"

\* C8: run_probe with an unknown probe type, and any Case operation with a
\* case_id that names no Case, answers with an error and leaves every Case
\* as it was, creating none.
C8_InputErrorLeavesCases ==
    [][\A case_id \in CaseIds :
          LET unknown_case == case_id \notin Cases
              rejected == /\ response'.status = "error"
                          /\ investigations' = investigations
          IN /\ \A probe \in ProbeRequests, exec \in ExecOutputs :
                   (run_probe(case_id, probe, exec, FALSE)
                      /\ (unknown_case \/ ~KnownProbe(probe)))
                   => rejected
             /\ (unknown_case /\ next_probe(case_id)) => rejected
             /\ (unknown_case /\ get_summary(case_id)) => rejected
             /\ \A patch \in Patches, manifest \in Manifests :
                   (unknown_case /\ remediate(case_id, patch, manifest, TRUE))
                   => rejected]_vars

\* an unknown probe type was just rejected for a Case that has a plan
C8_Witness ==
    \E c \in Cases :
        /\ response = Failure("Unknown probe")
        /\ investigations[c].state = "PLAN"
        /\ investigations[c].hypotheses # <<>>
        /\ investigations[c].probe_count = 0

\* C9: the rows the baseline query of a detect call reads never include a
\* row this same call stored.
C9_BaselineExcludesCurrentSample ==
    response.op = "detect_drift"
    => response.body.stored \cap response.body.read = {}

AnomalySet(anomalies) == {anomalies[i] : i \in 1..Len(anomalies)}

\* C10: a detect call that repeats the previous detect call (same stage, same
\* current_metrics, nothing else stored in between) returns the same set of
\* anomalies as that call.
C10_DetectorIdempotence ==
    [][\A run_id \in DetectorRunIds, input \in DetectorInputs, tie \in TieOrders :
          (/\ response.op = "detect_drift"
           /\ response.body.stage = input[1]
           /\ response.body.current_metrics = input[2]
           /\ detect(run_id, input[1], input[2], tie))
          => AnomalySet(response'.body.anomalies) = AnomalySet(response.body.anomalies)]_vars

\* the ClinVar counts of the current metrics of the last detect call
LastClinvarCounts ==
    MetricGet(response.body.current_metrics, "clinvar_counts", Dict(EmptyBaseline)).v

\* C11: for stage annotate, detect returns exactly one anomaly, clinvar_chi2
\* with p = 1e-6 and effect 0.35, when pathogenic / (sum of all ClinVar
\* counts) > 0.15, and none otherwise, whatever the store holds.
C11_AnnotationRule ==
    (response.op = "detect_drift" /\ response.body.stage = "annotate")
    => LET counts == LastClinvarCounts
           total == DictSum(counts)
           pathogenic == IF "pathogenic" \in DOMAIN counts THEN counts["pathogenic"] ELSE 0
       IN response.body.anomalies =
             IF total > 0 /\ 100 * pathogenic > 15 * total
             THEN <<[stage |-> "annotation", metric |-> "clinvar_chi2",
                     p |-> 1, effect |-> 350]>>
             ELSE <<>>

\* an annotate call that returned the anomaly although the store already held
\* annotate samples that raised none
C11_Witness ==
    /\ response.op = "detect_drift"
    /\ response.body.stage = "annotate"
    /\ Len(response.body.anomalies) = 1
    /\ \E i \in 1..Len(metrics_db) :
          /\ i \notin response.body.stored
          /\ metrics_db[i].stage = "annotate"
          /\ json_loads(metrics_db[i].metric_value).pathogenic = 15

RECURSIVE SamplesUpTo(_, _, _)
\* the numeric samples of (stage, metric_name) among the first n rows of the
\* store, oldest first
SamplesUpTo(n, stage, metric_name) ==
    IF n = 0 THEN <<>>
    ELSE LET row == metrics_db[n]
             rest == SamplesUpTo(n - 1, stage, metric_name)
         IN IF row.stage = stage /\ row.metric_name = metric_name
               /\ row.metric_value.kind = "real"
            THEN Append(rest, row.metric_value.v)
            ELSE rest

\* the samples of (stage, metric_name) the store held before the last detect
\* call stored its own
PriorSamples(stage, metric_name) ==
    SamplesUpTo(Len(metrics_db) - Cardinality(response.body.stored), stage, metric_name)

\* C12: for stage align, detect returns the softclip anomaly exactly when the
\* current softclip rate exceeds 1.5 times the median of the baseline rates
\* (the rates stored before the call), with effect (current - median)/median;
\* a baseline of median 0.05 and a current rate of 0.09 give effect 0.8.
C12_SoftclipRule ==
    (/\ response.op = "detect_drift"
     /\ response.body.stage = "align"
     /\ MetricHas(response.body.current_metrics, "softclip_rate"))
    => LET current_rate == MetricGet(response.body.current_metrics, "softclip_rate", Num(0)).v
           baseline_rates == PriorSamples("align", "softclip_rate")
           m2 == Median2(baseline_rates)
       IN IF baseline_rates # <<>> /\ m2 > 0 /\ 4 * current_rate > 3 * m2
          THEN response.body.anomalies =
                  <<[stage |-> "alignment", metric |-> "softclip_rate_increase",
                     p |-> 1000, effect |-> ((2 * current_rate - m2) * 1000) \div m2]>>
          ELSE (baseline_rates # <<>> /\ m2 > 0) => response.body.anomalies = <<>>

\* C13: every anomaly detect returns, for any stage, current metrics and
\* stored baseline (a baseline of median zero included), has a finite effect
\* size that is at least zero.
C13_EffectFiniteNonNegative ==
    response.op = "detect_drift"
    => \A i \in 1..Len(response.body.anomalies) :
          /\ response.body.anomalies[i].effect >= 0
          /\ response.body.anomalies[i].effect < Infinity

\* C14: every probe result recorded on a Case has explains_pct within [0, 1],
\* whatever the stage executors reported to the probe.
C14_ExplainsPctInUnitInterval ==
    \A c \in Cases :
        \A i \in 1..Len(investigations[c].probe_results) :
            /\ investigations[c].probe_results[i].explains_pct >= 0
            /\ investigations[c].probe_results[i].explains_pct <= 1000

\* the position of a hypothesis in the catalog
CatalogIndex(hyp_id) == CHOOSE i \in 1..Len(HypothesisIds) : HypothesisIds[i] = hyp_id

\* C15: rank returns each of the six catalog hypotheses once, ordered by
\* non-increasing score, and two hypotheses of the returned list whose scores
\* are equal appear in the order the catalog declares them.
C15_RankingOrder ==
    response.op = "rank_hypotheses"
    => LET ranked == response.body.ranked
       IN /\ Len(ranked) = 6
          /\ {ranked[i].id : i \in 1..Len(ranked)} =
                {"annotation_drift", "caller_drift", "reference_drift",
                 "mapping_bias", "schema_mismatch", "batch_effect"}
          /\ \A i, j \in 1..Len(ranked) :
                i < j => /\ ranked[i].score >= ranked[j].score
                         /\ ranked[i].score = ranked[j].score
                            => CatalogIndex(ranked[i].id) < CatalogIndex(ranked[j].id)

\* the last rank call had a database version change signalled and a
\* clinvar_chi2 anomaly among its anomalies
RankedAnnotationEvidence ==
    /\ response.op = "rank_hypotheses"
    /\ "db_version_changed" \in response.body.kg_delta
    /\ \E i \in 1..Len(response.body.anomalies) :
          response.body.anomalies[i].metric = "clinvar_chi2"

\* C16: whenever a database version change is signalled and the anomalies
\* include a clinvar_chi2 anomaly, rank_hypotheses places annotation_drift
\* first, whatever further anomalies come with it.
C16_AnnotationDriftFirst ==
    RankedAnnotationEvidence => response.body.ranked[1].id = "annotation_drift"

\* C16 (amended): whenever a database version change is signalled and the
\* anomalies include a clinvar_chi2 anomaly, rank_hypotheses places
\* annotation_drift first, provided every anomaly that comes with it has an
\* effect size of at most 1.5.
C16_AnnotationDriftFirstBoundedEffects ==
    (/\ RankedAnnotationEvidence
     /\ \A i \in 1..Len(response.body.anomalies) :
           response.body.anomalies[i].effect <= 1500)
    => response.body.ranked[1].id = "annotation_drift"

\* annotation_drift ranked first against a caller change and a Ti/Tv anomaly
\* of effect 1.5, its closest competitor
C16_Witness ==
    /\ RankedAnnotationEvidence
    /\ "caller_changed" \in response.body.kg_delta
    /\ \E i \in 1..Len(response.body.anomalies) :
          /\ response.body.anomalies[i].metric = "titv_drift"
          /\ response.body.anomalies[i].effect = 1500
    /\ response.body.ranked[1] = [id |-> "annotation_drift", score |-> 2580]
    /\ response.body.ranked[2] = [id |-> "caller_drift", score |-> 2550]

\* the rows of (stage, metric_name) in the store
MetricRows(stage, metric_name) ==
    {i \in 1..Len(metrics_db) :
        metrics_db[i].stage = stage /\ metrics_db[i].metric_name = metric_name}

\* the rows of metric_name among the rows the last baseline query returned,
\* in the order it returned them
ReturnedRows(metric_name) ==
    SelectSeq(response.body.rowids, LAMBDA i : metrics_db[i].metric_name = metric_name)

\* C17: for every (stage, metric_name) whose samples are scalars, the series
\* baseline(stage, limit) returns is made of the most recent
\* min(limit, number stored) samples of that metric, newest first: it has
\* that many entries, never more than limit, whatever other metrics of the
\* stage were stored.
C17_BaselineWindowPerMetric ==
    response.op = "get_baseline_metrics"
    => \A metric_name \in {metrics_db[i].metric_name : i \in 1..Len(metrics_db)} :
          LET stored == MetricRows(response.body.stage, metric_name)
              returned == ReturnedRows(metric_name)
          IN (stored # {} /\ \A i \in stored : metrics_db[i].metric_value.kind = "real")
             => /\ Len(returned) = Min(response.body.limit, Cardinality(stored))
                /\ Len(returned) <= response.body.limit
                /\ \A k \in 1..Len(returned) - 1 :
                      metrics_db[returned[k]].timestamp
                         >= metrics_db[returned[k + 1]].timestamp
                /\ \A i \in stored, k \in 1..Len(returned) :
                      (\A l \in 1..Len(returned) : returned[l] # i)
                      => metrics_db[i].timestamp <= metrics_db[returned[k]].timestamp
                /\ metric_name \in DOMAIN response.body.baseline
                /\ response.body.baseline[metric_name] =
                      List([k \in 1..Len(returned) |->
                               metrics_db[returned[k]].metric_value.v])

\* C18: a failure of the narration never blocks the drift check: whenever a
\* Case is registered, the caller receives the detected anomalies and the
\* case_id of that Case.
C18_NarrationFailureStillReturnsCase ==
    [][\A c \in (DOMAIN investigations') \ Cases :
          /\ response'.status = "ok"
          /\ response'.op = "check_drift"
          /\ response'.body.case_id = c
          /\ response'.body.anomalies = investigations'[c].anomalies]_vars

\* C19: a probe whose stage executor fails or times out does not abort the
\* investigation: the call is answered, and the Case records it as a
\* non-converging probe result (probe_count grows by one, a result is
\* appended, the Case is in ASSESS), so that repeated failures use up the
\* probe budget.
C19_FailedProbeIsNonConvergingResult ==
    [][\A c \in Cases, probe \in ProbeRequests, exec \in ExecOutputs :
          (KnownProbe(probe) /\ run_probe(c, probe, exec, TRUE))
          => LET before == investigations[c]
                 after == investigations'[c]
             IN /\ response'.status = "ok"
                /\ after.probe_count = before.probe_count + 1
                /\ Len(after.probe_results) = Len(before.probe_results) + 1
                /\ after.state = "ASSESS"]_vars

\* the requests of an operation on a Case whose handler has returned
Done(op, c) ==
    {i \in DOMAIN requests :
        requests[i].pc = "done" /\ requests[i].op = op /\ requests[i].case_id = c}

\* at most one probe of a Case is executing
C20_OneProbeInFlight ==
    \A c \in Cases :
       Cardinality({i \in Running : requests[i].op = "run_probe"
                                     /\ requests[i].case_id = c}) <= 1

\* every probe that returned is counted and recorded on its Case
C20_NoLostUpdate ==
    \A c \in Cases :
       /\ investigations[c].probe_count = Cardinality(Done("run_probe", c))
       /\ Len(investigations[c].probe_results) = Cardinality(Done("run_probe", c))

\* a waiting request is held back only by a handler of its own Case
C20_DistinctCasesNotSerialized ==
    \A i \in DOMAIN requests :
       (/\ requests[i].pc = "waiting"
        /\ \A j \in Running : requests[j].case_id # requests[i].case_id)
       => ENABLED start(i)

\* C20: for one case_id at most one probe is in flight and the concurrent
\* next_probe, run_probe and remediate calls on that Case lose no probe_count
\* increment and no probe result, while an operation on a Case never waits
\* for an operation on a distinct Case.
C20_SingleWriterPerCase ==
    /\ C20_OneProbeInFlight
    /\ C20_NoLostUpdate
    /\ C20_DistinctCasesNotSerialized

\* the rows a baseline query returned that the store call of a run inserted
ReturnedOf(run_id) ==
    {k \in 1..Len(response.body.rowids) :
        metrics_db[response.body.rowids[k]].run_id = run_id}

\* C21: a baseline read never observes a partial write: of the rows one
\* store call inserts for a run, a query that its LIMIT does not cut short
\* returns either none or all of those of its stage, whatever store calls
\* of other runs are in progress.
C21_NoPartialWriteVisible ==
    (response.op = "get_baseline_metrics"
     /\ Len(response.body.rowids) < response.body.limit)
    => \A i \in DOMAIN requests :
          LET call == requests[i]
              committed == {r \in 1..Len(metrics_db) : metrics_db[r].run_id = call.run_id}
          IN call.stage = response.body.stage
             => \/ ReturnedOf(call.run_id) = {}
                \/ /\ call.pc = "done"
                   /\ Cardinality(ReturnedOf(call.run_id)) = Cardinality(committed)

\* a query answered while a store call of the same stage had inserted one of
\* its two rows, and that returned the committed rows of another run
C21_Witness ==
    /\ response.op = "get_baseline_metrics"
    /\ Len(response.body.rowids) < response.body.limit
    /\ response.body.rowids # <<>>
    /\ \E i \in DOMAIN requests :
          /\ requests[i].pc = "inserting"
          /\ requests[i].stage = response.body.stage
          /\ Len(requests[i].rows) = 1
          /\ requests[i].metrics # <<>>
          /\ ReturnedOf(requests[i].run_id) = {}

\* the samples of the validated manifest whose replay succeeded
PassedSamples ==
    {k \in DOMAIN response.body.manifest : response.body.manifest[k].success}

\* C22: micro-cohort validation never aborts on a failing sample: for a
\* cohort of n samples samples_processed is n, the details have one entry per
\* sample (the failing ones included), and samples_passed is the number of
\* samples whose replay succeeded, never more than samples_processed.
C22_ValidationCoversEverySample ==
    response.op = "apply_patch_on_microcohort"
    => LET manifest == response.body.manifest
           results == response.body.results
       IN /\ results.samples_processed = Len(manifest)
          /\ DOMAIN results.details = {manifest[k].id : k \in DOMAIN manifest}
          /\ \A k \in DOMAIN manifest :
                results.details[manifest[k].id] = manifest[k].success
          /\ results.samples_passed = Cardinality(PassedSamples)
          /\ results.samples_passed <= results.samples_processed

\* a cohort of two samples whose first replay failed and whose second passed
C22_Witness ==
    /\ response.op = "apply_patch_on_microcohort"
    /\ Len(response.body.manifest) = 2
    /\ PassedSamples = {2}
    /\ response.body.results.samples_processed = 2
    /\ response.body.results.samples_passed = 1

\* C23: drift_resolved is true only if the post-patch metrics of the sampled
\* micro-cohort are back within the thresholds: no replayed sample of a
\* cohort reported as resolved violates one.
C23_ResolvedOnlyWithinThresholds ==
    (response.op = "apply_patch_on_microcohort"
     /\ response.body.results.drift_resolved)
    => \A k \in PassedSamples : check_drift_resolved(response.body.manifest[k])

\* C24: detect on a stage other than align, call, annotate and predict
\* returns no anomaly and, as an input error, leaves the Metric Store as it
\* was: it stores no sample.
C24_UnknownStageMutatesNothing ==
    (response.op = "detect_drift" /\ response.body.stage \notin KnownStages)
    => /\ response.body.anomalies = <<>>
       /\ response.body.stored = {}

\* C25: the hypothesis ranking of a Case is computed once, by the first
\* next_probe, from the anomalies of the Case, and the cached ranking is the
\* same after every later next_probe and run_probe on that Case.
C25_RankingComputedOnce ==
    [][\A c \in Cases :
          LET before == investigations[c].hypotheses
              after == investigations'[c].hypotheses
          IN IF before # <<>>
             THEN after = before
             ELSE after # <<>>
                  => /\ response'.op = "next_probe"
                     /\ after = rank_hypotheses({"db_version_changed"},
                                                investigations[c].anomalies)]_vars

\* a Case planned again after two probes, with its ranking in place
C25_Witness ==
    \E c \in Cases :
       /\ investigations[c].probe_count >= 2
       /\ investigations[c].state = "PLAN"
       /\ investigations[c].hypotheses =
             rank_hypotheses({"db_version_changed"}, investigations[c].anomalies)
       /\ response.op = "next_probe"

\* the depth histogram of the metrics of a call
DepthHist(current_metrics) == MetricGet(current_metrics, "depth_hist", List(<<>>)).v

\* C26: the Metric Store keeps the depth histogram of every align run it
\* ingests, and once the store holds one earlier run with a depth histogram
\* detect on align emits a depth_ks anomaly when the KS test of the current
\* histogram against that baseline histogram has a p-value below 0.01.
C26_DepthHistogramRule ==
    [][\A run_id \in DetectorRunIds, input \in DetectorInputs, tie \in TieOrders :
          (/\ input[1] = "align"
           /\ MetricHas(input[2], "depth_hist")
           /\ detect(run_id, input[1], input[2], tie))
          => /\ \E r \in response'.body.stored :
                   metrics_db'[r].metric_name = "depth_hist"
             /\ (/\ response.op = "detect_drift"
                 /\ response.body.stage = "align"
                 /\ MetricHas(response.body.current_metrics, "depth_hist")
                 /\ response.body.stored = 1..Len(metrics_db)
                 /\ ks_test(DepthHist(input[2]),
                            DepthHist(response.body.current_metrics)).p_value < 10000)
                => \E k \in 1..Len(response'.body.anomalies) :
                      response'.body.anomalies[k].metric = "depth_ks"]_vars

\* C27: next_probe plans the probe at index (probe_count mod 5) of the
\* priority order reannotate, caller_version, realign_locus,
\* downsample_noise, schema_normalize, names the top-ranked hypothesis of the
\* Case as the hypothesis under test and sets current_hypothesis to it, and
\* changes neither probe_count nor probe_results.
C27_PlanByPriorityAndTopHypothesis ==
    [][\A c \in Cases :
          next_probe(c)
          => LET before == investigations[c]
                 after == investigations'[c]
                 plan == response'.body
             IN /\ response'.status = "ok"
                /\ plan.probe =
                      <<"reannotate", "caller_version", "realign_locus",
                        "downsample_noise", "schema_normalize">>[(before.probe_count % 5) + 1]
                /\ plan.hypothesis = after.hypotheses[1].id
                /\ \A k \in 1..Len(after.hypotheses) :
                      after.hypotheses[k].score <= after.hypotheses[1].score
                /\ after.current_hypothesis = plan.hypothesis
                /\ after.probe_count = before.probe_count
                /\ after.probe_results = before.probe_results]_vars

\* the plan of a Case after five probes: the priority order starts over
C27_Witness ==
    \E c \in Cases :
       /\ investigations[c].probe_count = 5
       /\ investigations[c].state = "PLAN"
       /\ response = Reply("next_probe",
                           [hypothesis |-> investigations[c].current_hypothesis,
                            probe |-> "reannotate"])

\* C28: every successful run_probe appends exactly one result, the one it
\* returns, to the probe_results of the Case and adds one to probe_count; a
\* failed run_probe changes neither; and after every step probe_count is the
\* number of recorded results of every Case.
C28_ProbeCountIsNumberOfResults ==
    [][/\ \A c \in Cases, probe \in ProbeRequests, exec \in ExecOutputs,
             raises \in BOOLEAN :
             run_probe(c, probe, exec, raises)
             => LET before == investigations[c]
                    after == investigations'[c]
                IN IF response'.status = "ok"
                   THEN /\ after.probe_count = before.probe_count + 1
                        /\ after.probe_results =
                              Append(before.probe_results, response'.body)
                   ELSE /\ after.probe_count = before.probe_count
                        /\ after.probe_results = before.probe_results
       /\ \A c \in DOMAIN investigations' :
             investigations'[c].probe_count = Len(investigations'[c].probe_results)]_vars

\* a Case with one probe counted and one result recorded, not converged
C28_Witness ==
    \E c \in Cases :
       /\ investigations[c].probe_count = 1
       /\ Len(investigations[c].probe_results) = 1
       /\ investigations[c].state = "ASSESS"
       /\ response.op = "run_probe"

\* the scalar values among the rows of a sequence of rowids, in its order
RECURSIVE ScalarValues(_)
ScalarValues(rowids) ==
    IF rowids = <<>> THEN <<>>
    ELSE LET cell == metrics_db[Head(rowids)].metric_value
         IN (IF cell.kind = "real" THEN <<cell.v>> ELSE <<>>)
               \o ScalarValues(Tail(rowids))

\* C29: for every metric of a stage whose samples the query returned all,
\* baseline returns a map exactly when the most recent stored value of the
\* metric is a map, and then that map; when the most recent stored value is
\* a scalar it returns the sequence of the scalar values, also when older
\* samples of the metric were stored as maps.
C29_MapIffMostRecentIsMap ==
    (/\ response.op = "get_baseline_metrics"
     /\ {response.body.rowids[k] : k \in 1..Len(response.body.rowids)}
           = {i \in 1..Len(metrics_db) : metrics_db[i].stage = response.body.stage})
    => \A metric_name \in {metrics_db[i].metric_name : i \in 1..Len(metrics_db)} :
          LET returned == ReturnedRows(metric_name)
              newest == returned[1]
          IN (/\ returned # <<>>
              /\ \A k \in 2..Len(returned) :
                    metrics_db[returned[k]].timestamp < metrics_db[newest].timestamp)
             => /\ metric_name \in DOMAIN response.body.baseline
                /\ response.body.baseline[metric_name] =
                      IF metrics_db[newest].metric_value.kind = "text"
                      THEN Dict(json_loads(metrics_db[newest].metric_value))
                      ELSE List(ScalarValues(returned))

\* C30: the probe type next_probe plans is always one that run_probe accepts
\* and executes, so a caller that runs the planned probe is never answered
\* "unknown probe" and never stays at the same probe_count.
C30_PlannedProbeIsRunnable ==
    response.op = "next_probe" => KnownProbe(response.body.probe)

=============================================================================
